---- MODULE Spec2Model ----
(***************************************************************************)
(* Model of plugins/polars/eruo-strutil/src/expressions.rs: the four       *)
(* string expressions pig_latinnify, split_by_chars, to_sentence_case and  *)
(* to_sponge_case.                                                         *)
(*                                                                         *)
(* A Rust char is a TLA+ string naming it: an ASCII character is the       *)
(* one-character string itself, a non-ASCII character is named by its      *)
(* code point ("U+00E9").  A Rust &str / String is a sequence of chars.    *)
(* Byte offsets (str::len, slicing, split_at, replace_range) are computed  *)
(* from len_utf8 of each char, so that a char index used as a byte offset  *)
(* is NOT the same number once a multi-byte char is present.               *)
(***************************************************************************)
EXTENDS Naturals, Sequences, FiniteSets

VARIABLES
    pc,                             \* position of the run: "start", "scan", "done"
    word, result,                   \* pig_latin_word: argument and returned value
    input,                          \* the text a scan run was started on
    value, pos, output,             \* closure argument, next char index, output buffer
    capitalize_next,                \* to_sentence_case scanner flags
    last_char_was_lowercase,
    last_char_was_sentence_ender,
    pass, first_output,             \* which application of the closure; the first one's output
    ca, characters, row,            \* input column, split_by_chars kwargs, row cursor
    all_results, out,               \* split_by_chars accumulator; output column
    fn, panicked                    \* expression applied to the column; a row's closure panicked

vars == <<pc, word, result, input, value, pos, output, capitalize_next,
          last_char_was_lowercase, last_char_was_sentence_ender, pass,
          first_output, ca, characters, row, all_results, out, fn, panicked>>

wordVars == <<word, result>>
scanVars == <<input, value, pos, output, capitalize_next, last_char_was_lowercase,
              last_char_was_sentence_ender, pass, first_output>>
colVars == <<ca, characters, row, all_results, out, fn, panicked>>

-----------------------------------------------------------------------------
(* Bounds of the explored inputs.                                          *)

MaxWordLen == 3
MaxTextLen == 3
MaxCellLen == 2
MaxRows == 2

-----------------------------------------------------------------------------
(* Characters and their std classifications.                               *)

AsciiLower == <<"a","b","c","d","e","f","g","h","i","j","k","l","m",
                "n","o","p","q","r","s","t","u","v","w","x","y","z">>
AsciiUpper == <<"A","B","C","D","E","F","G","H","I","J","K","L","M",
                "N","O","P","Q","R","S","T","U","V","W","X","Y","Z">>

Range(s) == {s[i] : i \in 1..Len(s)}

IndexOf(s, c) == CHOOSE i \in 1..Len(s) : s[i] = c

\* Non-ASCII letters of the model:
\*   U+00E9  e with acute     lowercase, 2 bytes, uppercase U+00C9
\*   U+00C9  E with acute     uppercase, 2 bytes, lowercase U+00E9
\*   U+00DF  sharp s          lowercase, 2 bytes, uppercase is the two chars "SS"
\*   U+1D400 math bold A      uppercase (Lu), 4 bytes, no case mappings
NonAsciiLower == {"U+00E9", "U+00DF"}
NonAsciiUpper == {"U+00C9", "U+1D400"}

\* char::is_ascii_punctuation, less the grave accent (U+0060), which a TLA+
\* string literal cannot hold.
AsciiPunctuation ==
    {"!", "\"", "#", "$", "%", "&", "'", "(", ")", "*", "+", ",", "-", ".", "/",
     ":", ";", "<", "=", ">", "?", "@", "[", "\\", "]", "^", "_", "{", "|",
     "}", "~"}

WhiteSpace == {" ", "\t", "\n"}

len_utf8(c) ==
    IF c = "U+1D400" THEN 4
    ELSE IF c \in NonAsciiLower \cup NonAsciiUpper THEN 2
    ELSE 1

is_ascii_punctuation(c) == c \in AsciiPunctuation

is_whitespace(c) == c \in WhiteSpace

is_ascii_uppercase(c) == c \in Range(AsciiUpper)

is_uppercase(c) == c \in Range(AsciiUpper) \cup NonAsciiUpper

is_lowercase(c) == c \in Range(AsciiLower) \cup NonAsciiLower

is_alphabetic(c) == is_uppercase(c) \/ is_lowercase(c)

to_ascii_lowercase(c) ==
    IF c \in Range(AsciiUpper) THEN AsciiLower[IndexOf(AsciiUpper, c)] ELSE c

to_ascii_uppercase(c) ==
    IF c \in Range(AsciiLower) THEN AsciiUpper[IndexOf(AsciiLower, c)] ELSE c

\* char::to_uppercase / char::to_lowercase yield an iterator of chars: the
\* mapping of one char may be several chars.
to_uppercase(c) ==
    IF c \in Range(AsciiLower) THEN <<AsciiUpper[IndexOf(AsciiLower, c)]>>
    ELSE IF c = "U+00E9" THEN <<"U+00C9">>
    ELSE IF c = "U+00DF" THEN <<"S", "S">>
    ELSE <<c>>

to_lowercase(c) ==
    IF c \in Range(AsciiUpper) THEN <<AsciiLower[IndexOf(AsciiUpper, c)]>>
    ELSE IF c = "U+00C9" THEN <<"U+00E9">>
    ELSE <<c>>

is_vowel(c) == to_ascii_lowercase(c) \in {"a", "e", "i", "o", "u"}

-----------------------------------------------------------------------------
(* &str as bytes.                                                          *)

RECURSIVE str_len(_)
str_len(s) == IF s = <<>> THEN 0 ELSE len_utf8(Head(s)) + str_len(Tail(s))

\* Number of leading chars of s that end exactly at byte offset mid, or
\* NoBoundary(s) when mid is not a char boundary of s.
NoBoundary(s) == Len(s) + 1

CharsBefore(s, mid) ==
    IF \E n \in 0..Len(s) : str_len(SubSeq(s, 1, n)) = mid
    THEN CHOOSE n \in 0..Len(s) : str_len(SubSeq(s, 1, n)) = mid
    ELSE NoBoundary(s)

is_char_boundary(s, mid) == CharsBefore(s, mid) # NoBoundary(s)

\* str::split_at(mid): panics when mid is past the end or not on a char boundary.
split_at(s, mid) ==
    IF is_char_boundary(s, mid)
    THEN [panic |-> FALSE,
          left  |-> SubSeq(s, 1, CharsBefore(s, mid)),
          right |-> SubSeq(s, CharsBefore(s, mid) + 1, Len(s))]
    ELSE [panic |-> TRUE, left |-> <<>>, right |-> <<>>]

\* String::replace_range(..1, with): panics when byte 1 is not a char boundary.
replace_first_byte(s, with) ==
    IF is_char_boundary(s, 1)
    THEN [panic |-> FALSE, val |-> with \o SubSeq(s, CharsBefore(s, 1) + 1, Len(s))]
    ELSE [panic |-> TRUE, val |-> <<>>]

Returned(s) == [panic |-> FALSE, val |-> s]
Panic == [panic |-> TRUE, val |-> <<>>]

-----------------------------------------------------------------------------
(* pig_latin_word                                                          *)

\* let (word_content, punctuation) = ...: a trailing ASCII punctuation char
\* is cut off by the byte slice &word[0..word.len() - 1].
has_punctuation(w) == w # <<>> /\ is_ascii_punctuation(w[Len(w)])

word_content(w) ==
    IF has_punctuation(w) THEN split_at(w, str_len(w) - 1).left ELSE w

punctuation(w) == IF has_punctuation(w) THEN <<w[Len(w)]>> ELSE <<>>

\* The for loop over word_content.chars().enumerate(): i is the 0-based CHAR
\* index, compared with the BYTE length word_content.len() - 1 and later
\* used as a byte offset.
RECURSIVE cluster_scan(_, _, _)
cluster_scan(wc, i, end) ==
    IF i >= Len(wc) THEN end
    ELSE IF is_vowel(wc[i + 1]) THEN i
    ELSE IF i = str_len(wc) - 1 THEN cluster_scan(wc, i + 1, str_len(wc))
    ELSE cluster_scan(wc, i + 1, end)

\* Requires wc # <<>> (the caller unwraps the first char before this).
consonant_cluster_end(wc) ==
    IF ~is_vowel(wc[1]) THEN cluster_scan(wc, 0, 0) ELSE 0

\* "Handle capitalization": only the first char of the result is touched.
capitalize_result(wc, content) ==
    IF is_ascii_uppercase(wc[1])
    THEN replace_first_byte(content, <<to_ascii_uppercase(content[1])>>)
    ELSE Returned(content)

\* The else branch of `let result`: split at the cluster end, move the
\* cluster behind the rest, append "ay".
move_cluster(wc, end) ==
    LET parts == split_at(wc, end)
        pig_latin_word_content == parts.right \o parts.left \o <<"a", "y">>
    IN  IF parts.panic THEN Panic ELSE capitalize_result(wc, pig_latin_word_content)

pig_latin_content(wc) ==
    IF consonant_cluster_end(wc) = 0
    THEN Returned(wc \o <<"w", "a", "y">>)
    ELSE move_cluster(wc, consonant_cluster_end(wc))

pig_latin_word(w) ==
    IF w = <<>> THEN Returned(<<>>)
    ELSE IF word_content(w) = <<>> THEN Panic   \* .chars().next().unwrap() on ""
    ELSE LET r == pig_latin_content(word_content(w))
         IN  IF r.panic THEN Panic ELSE Returned(r.val \o punctuation(w))

-----------------------------------------------------------------------------
(* Bounded input sets.                                                     *)

RECURSIVE SeqsUpTo(_, _)
SeqsUpTo(S, n) ==
    IF n = 0 THEN {<<>>}
    ELSE LET shorter == SeqsUpTo(S, n - 1)
         IN  shorter \cup {Append(s, c) : s \in shorter, c \in S}

WordAlphabet == {"a", "i", "p", "P", "x", "!", "U+00E9"}

Pig == <<"p", "i", "g">>
CapPig == <<"P", "i", "g">>
LatinBang == <<"l", "a", "t", "i", "n", "!">>
Xyz == <<"x", "y", "z">>

Words == SeqsUpTo(WordAlphabet, MaxWordLen) \cup {Pig, CapPig, LatinBang, Xyz}

NoText == <<>>
NoColumn == <<>>

WordIdle ==
    /\ word = NoText /\ result = Returned(NoText)

ScanIdle ==
    /\ input = NoText /\ value = NoText /\ pos = 1 /\ output = NoText
    /\ capitalize_next = TRUE
    /\ last_char_was_lowercase = FALSE
    /\ last_char_was_sentence_ender = FALSE
    /\ pass = 1 /\ first_output = NoText

ColIdle ==
    /\ ca = NoColumn /\ characters = NoText /\ row = 1
    /\ all_results = NoColumn /\ out = NoColumn
    /\ fn = "none" /\ panicked = FALSE

-----------------------------------------------------------------------------
(* One call of pig_latin_word on one word.                                 *)

InitPig ==
    /\ pc = "start"
    /\ word \in Words
    /\ result = Returned(NoText)
    /\ ScanIdle /\ ColIdle

CallPigLatinWord ==
    /\ pc = "start"
    /\ result' = pig_latin_word(word)
    /\ pc' = "done"
    /\ UNCHANGED <<word, scanVars, colVars>>

NextPig == CallPigLatinWord

SpecPig == InitPig /\ [][NextPig]_vars

-----------------------------------------------------------------------------
(* to_sentence_case: the closure body, one action per loop iteration.      *)

is_sentence_ender(c) == c \in {".", "!", "?"}

should_insert_space_before_lowercase(lower, c) == lower /\ is_lowercase(c)

\* let should_insert_space = last_char_was_lowercase && c.is_uppercase();
should_insert_space(lower, c) == lower /\ is_uppercase(c)

\* if capitalize_next { c.to_uppercase() } else { c.to_lowercase() }
apply_capitalization(c, cap) == IF cap THEN to_uppercase(c) ELSE to_lowercase(c)

alphabetic_output_capitalizing_boundary(c, cap, lower) ==
    (IF should_insert_space(lower, c) THEN <<" ">> ELSE <<>>)
        \o apply_capitalization(c, cap \/ should_insert_space(lower, c))

\* What the alphabetic branch appends to the output buffer for char c.
alphabetic_output(c, cap, lower) ==
    (IF should_insert_space(lower, c) THEN <<" ">> ELSE <<>>)
        \o apply_capitalization(c, cap)

capitalize_after_any_ender(c, cap, ender) ==
    IF is_sentence_ender(c) THEN TRUE
    ELSE IF is_whitespace(c) /\ ender THEN TRUE
    ELSE FALSE

\* capitalize_next after a non-alphabetic char c: the if / else if / else chain.
capitalize_after(c, cap, ender) ==
    IF is_sentence_ender(c) THEN cap
    ELSE IF is_whitespace(c) /\ ender THEN TRUE
    ELSE FALSE

SentenceAlphabet == {"a", "B", "U+00DF", "U+1D400", ".", " ", "-"}

HelloWorldThe ==
    <<"H","E","L","L","O"," ","w","o","r","l","d",".","t","h","e"," ","E","N","D">>
HelloCamel == <<"h","e","l","l","o","W","o","r","l","d">>
HelloSpaced ==
    <<"h","e","l","l","o"," ","w","o","r","l","d","."," ","t","h","e"," ","e","n","d">>
TwoSpaces == <<"a", ".", " ", " ", "b">>

SentenceTexts ==
    SeqsUpTo(SentenceAlphabet, MaxTextLen)
        \cup {HelloWorldThe, HelloCamel, HelloSpaced, TwoSpaces}

\* Entry of the closure |value, output|: the three flags are locals of the
\* closure, the buffer arrives empty.
EnterSentenceClosure(v) ==
    /\ value' = v
    /\ pos' = 1
    /\ output' = <<>>
    /\ capitalize_next' = TRUE
    /\ last_char_was_lowercase' = FALSE
    /\ last_char_was_sentence_ender' = FALSE

InitSentence ==
    /\ pc = "scan"
    /\ input \in SentenceTexts
    /\ value = input
    /\ pos = 1
    /\ output = <<>>
    /\ capitalize_next = TRUE
    /\ last_char_was_lowercase = FALSE
    /\ last_char_was_sentence_ender = FALSE
    /\ pass = 1
    /\ first_output = NoText
    /\ WordIdle /\ ColIdle

SentenceAlphabetic ==
    /\ pc = "scan" /\ pos <= Len(value)
    /\ is_alphabetic(value[pos])
    /\ output' = output \o alphabetic_output(value[pos], capitalize_next,
                                              last_char_was_lowercase)
    /\ capitalize_next' = FALSE
    /\ last_char_was_lowercase' = is_lowercase(value[pos])
    /\ last_char_was_sentence_ender' = FALSE
    /\ pos' = pos + 1
    /\ UNCHANGED <<pc, input, value, pass, first_output, wordVars, colVars>>

SentenceNonAlphabetic ==
    /\ pc = "scan" /\ pos <= Len(value)
    /\ ~is_alphabetic(value[pos])
    /\ output' = Append(output, value[pos])
    /\ capitalize_next' = capitalize_after(value[pos], capitalize_next,
                                           last_char_was_sentence_ender)
    /\ last_char_was_sentence_ender' = is_sentence_ender(value[pos])
    /\ last_char_was_lowercase' = FALSE
    /\ pos' = pos + 1
    /\ UNCHANGED <<pc, input, value, pass, first_output, wordVars, colVars>>

SentenceEnd ==
    /\ pc = "scan" /\ pos > Len(value)
    /\ pc' = "done"
    /\ UNCHANGED <<scanVars, wordVars, colVars>>

\* The expression applied again, to the column it produced: the closure is
\* entered afresh with the previous output as its value.
SentenceReapply ==
    /\ pc = "done" /\ pass = 1
    /\ EnterSentenceClosure(output)
    /\ first_output' = output
    /\ pass' = 2
    /\ pc' = "scan"
    /\ UNCHANGED <<input, wordVars, colVars>>

NextSentence ==
    \/ SentenceAlphabetic
    \/ SentenceNonAlphabetic
    \/ SentenceEnd
    \/ SentenceReapply

SpecSentence == InitSentence /\ [][NextSentence]_vars

-----------------------------------------------------------------------------
(* to_sponge_case: the closure body, one action per loop iteration.  The   *)
(* generator is rand::rng(), the thread-local generator seeded by the      *)
(* operating system: each random_bool(0.5) is a free choice.               *)

SpongeAlphabet == {"a", "B", "-", " "}

SpongeTexts == SeqsUpTo(SpongeAlphabet, MaxTextLen)

InitSponge ==
    /\ pc = "scan"
    /\ input \in SpongeTexts
    /\ value = input
    /\ pos = 1
    /\ output = <<>>
    /\ capitalize_next = TRUE
    /\ last_char_was_lowercase = FALSE
    /\ last_char_was_sentence_ender = FALSE
    /\ pass = 1
    /\ first_output = NoText
    /\ WordIdle /\ ColIdle

SpongeAlphabetic ==
    /\ pc = "scan" /\ pos <= Len(value)
    /\ is_alphabetic(value[pos])
    /\ \E random_bool \in BOOLEAN :
          output' = output \o (IF random_bool THEN to_uppercase(value[pos])
                                              ELSE to_lowercase(value[pos]))
    /\ pos' = pos + 1
    /\ UNCHANGED <<pc, input, value, capitalize_next, last_char_was_lowercase,
                   last_char_was_sentence_ender, pass, first_output,
                   wordVars, colVars>>

SpongeOther ==
    /\ pc = "scan" /\ pos <= Len(value)
    /\ ~is_alphabetic(value[pos])
    /\ output' = Append(output, value[pos])
    /\ pos' = pos + 1
    /\ UNCHANGED <<pc, input, value, capitalize_next, last_char_was_lowercase,
                   last_char_was_sentence_ender, pass, first_output,
                   wordVars, colVars>>

SpongeEnd ==
    /\ pc = "scan" /\ pos > Len(value)
    /\ pc' = "done"
    /\ UNCHANGED <<scanVars, wordVars, colVars>>

\* A second run of the expression on the same input value.
SpongeRunAgain ==
    /\ pc = "done" /\ pass = 1
    /\ first_output' = output
    /\ output' = <<>>
    /\ pos' = 1
    /\ pass' = 2
    /\ pc' = "scan"
    /\ UNCHANGED <<input, value, capitalize_next, last_char_was_lowercase,
                   last_char_was_sentence_ender, wordVars, colVars>>

NextSponge ==
    \/ SpongeAlphabetic
    \/ SpongeOther
    \/ SpongeEnd
    \/ SpongeRunAgain

SpecSponge == InitSponge /\ [][NextSponge]_vars

-----------------------------------------------------------------------------
(* Columns: a StringChunked is a sequence of optional strings.             *)

None == [is_null |-> TRUE, s |-> <<>>]
Some(t) == [is_null |-> FALSE, s |-> t]

Columns(cells, n) == SeqsUpTo(cells, n)

-----------------------------------------------------------------------------
(* split_by_chars                                                          *)

\* characters.contains(c)
contains(chars, c) == \E i \in 1..Len(chars) : chars[i] = c

\* s.split(|c| characters.contains(c)): a left-to-right scan that closes the
\* current part at every matching char and at the end of the string.
RECURSIVE split_scan(_, _, _, _, _)
split_scan(s, chars, i, part, parts) ==
    IF i > Len(s) THEN Append(parts, part)
    ELSE IF contains(chars, s[i]) THEN split_scan(s, chars, i + 1, <<>>, Append(parts, part))
    ELSE split_scan(s, chars, i + 1, Append(part, s[i]), parts)

split(s, chars) == split_scan(s, chars, 1, <<>>, <<>>)

RECURSIVE trim_start(_)
trim_start(s) ==
    IF s # <<>> /\ is_whitespace(Head(s)) THEN trim_start(Tail(s)) ELSE s

RECURSIVE trim_end(_)
trim_end(s) ==
    IF s # <<>> /\ is_whitespace(s[Len(s)]) THEN trim_end(SubSeq(s, 1, Len(s) - 1)) ELSE s

trim_leading_only(s) == trim_start(s)

\* str::trim
trim(s) == trim_end(trim_start(s))

\* for part in s.split(..) { all_results.push(part.trim().to_string()) }
push_parts(results, s, chars) ==
    results \o [j \in 1..Len(split(s, chars)) |-> trim(split(s, chars)[j])]

SplitAlphabet == {"a", " ", ","}

ACommaBSemiC == <<"a", ",", " ", "b", ";", "c">>
ACommaCommaB == <<"a", ",", ",", "b">>

SplitCells ==
    {Some(t) : t \in SeqsUpTo(SplitAlphabet, MaxCellLen) \cup {ACommaBSemiC, ACommaCommaB}}
        \cup {None}

Delimiters == {<<",">>, <<",", ";">>, <<" ">>}

InitSplit ==
    /\ pc = "rows"
    /\ ca \in Columns(SplitCells, MaxRows)
    /\ characters \in Delimiters
    /\ row = 1
    /\ all_results = <<>>
    /\ out = NoColumn
    /\ fn = "split_by_chars"
    /\ panicked = FALSE
    /\ WordIdle /\ ScanIdle

\* for value in ca.iter(): a null value pushes nothing.
SplitNullRow ==
    /\ pc = "rows" /\ row <= Len(ca)
    /\ ca[row].is_null
    /\ row' = row + 1
    /\ UNCHANGED <<pc, ca, characters, all_results, out, fn, panicked,
                   wordVars, scanVars>>

SplitValueRow ==
    /\ pc = "rows" /\ row <= Len(ca)
    /\ ~ca[row].is_null
    /\ all_results' = push_parts(all_results, ca[row].s, characters)
    /\ row' = row + 1
    /\ UNCHANGED <<pc, ca, characters, out, fn, panicked, wordVars, scanVars>>

\* all_results.iter().map(|s| Some(s.as_str())).collect::<StringChunked>()
SplitCollect ==
    /\ pc = "rows" /\ row > Len(ca)
    /\ out' = [j \in 1..Len(all_results) |-> Some(all_results[j])]
    /\ pc' = "done"
    /\ UNCHANGED <<ca, characters, row, all_results, fn, panicked,
                   wordVars, scanVars>>

NextSplit ==
    \/ SplitNullRow
    \/ SplitValueRow
    \/ SplitCollect

SpecSplit == InitSplit /\ [][NextSplit]_vars

-----------------------------------------------------------------------------
(* pig_latinnify, to_sentence_case and to_sponge_case over a column: the   *)
(* closure is handed to apply_into_string_amortized, which calls it once   *)
(* per non-null value with an emptied buffer and keeps nulls as nulls.     *)

\* value.split_whitespace(): the maximal runs of non-whitespace chars.
RECURSIVE split_whitespace_scan(_, _, _, _)
split_whitespace_scan(s, i, w, ws) ==
    IF i > Len(s) THEN (IF w = <<>> THEN ws ELSE Append(ws, w))
    ELSE IF is_whitespace(s[i])
         THEN split_whitespace_scan(s, i + 1, <<>>, IF w = <<>> THEN ws ELSE Append(ws, w))
    ELSE split_whitespace_scan(s, i + 1, Append(w, s[i]), ws)

split_whitespace(s) == split_whitespace_scan(s, 1, <<>>, <<>>)

\* translated_words.join(" ")
RECURSIVE join(_)
join(ws) ==
    IF ws = <<>> THEN <<>>
    ELSE IF Len(ws) = 1 THEN ws[1]
    ELSE ws[1] \o <<" ">> \o join(Tail(ws))

\* The pig_latinnify closure on one value: a panic of any word unwinds it.
pig_latinnify_value(v) ==
    LET words == split_whitespace(v)
        translated_words == [j \in 1..Len(words) |-> pig_latin_word(words[j])]
    IN  IF \E j \in 1..Len(words) : translated_words[j].panic
        THEN Panic
        ELSE Returned(join([j \in 1..Len(words) |-> translated_words[j].val]))

\* The to_sentence_case closure on one value, start to end: st is the
\* scanner state <<output, capitalize_next, lowercase, sentence_ender>>.
RECURSIVE sentence_scan(_, _, _)
sentence_scan(v, i, st) ==
    IF i > Len(v) THEN st[1]
    ELSE IF is_alphabetic(v[i])
         THEN sentence_scan(v, i + 1,
                  <<st[1] \o alphabetic_output(v[i], st[2], st[3]),
                    FALSE, is_lowercase(v[i]), FALSE>>)
    ELSE sentence_scan(v, i + 1,
             <<Append(st[1], v[i]), capitalize_after(v[i], st[2], st[4]),
               FALSE, is_sentence_ender(v[i])>>)

to_sentence_case_value(v) == Returned(sentence_scan(v, 1, <<<<>>, TRUE, FALSE, FALSE>>))

\* The to_sponge_case closure on one value: every output the coin flips allow.
RECURSIVE sponge_outcomes(_)
sponge_outcomes(v) ==
    IF v = <<>> THEN {<<>>}
    ELSE LET heads == IF is_alphabetic(Head(v))
                      THEN {to_uppercase(Head(v)), to_lowercase(Head(v))}
                      ELSE {<<Head(v)>>}
         IN  {h \o t : h \in heads, t \in sponge_outcomes(Tail(v))}

ColumnAlphabet == {"a", "B", "!", " "}

ColumnCells == {Some(t) : t \in SeqsUpTo(ColumnAlphabet, MaxCellLen)} \cup {None}

Expressions == {"pig_latinnify", "to_sentence_case", "to_sponge_case"}

\* The results the closure of expression f can leave for value v.
closure_results(f, v) ==
    IF f = "pig_latinnify" THEN {pig_latinnify_value(v)}
    ELSE IF f = "to_sentence_case" THEN {to_sentence_case_value(v)}
    ELSE {Returned(o) : o \in sponge_outcomes(v)}

InitColumn ==
    /\ pc = "rows"
    /\ fn \in Expressions
    /\ ca \in Columns(ColumnCells, MaxRows)
    /\ characters = NoText
    /\ row = 1
    /\ all_results = <<>>
    /\ out = NoColumn
    /\ panicked = FALSE
    /\ WordIdle /\ ScanIdle

ApplyNullRow ==
    /\ pc = "rows" /\ row <= Len(ca)
    /\ ca[row].is_null
    /\ out' = Append(out, None)
    /\ row' = row + 1
    /\ UNCHANGED <<pc, ca, characters, all_results, fn, panicked, wordVars, scanVars>>

ApplyValueRow ==
    /\ pc = "rows" /\ row <= Len(ca)
    /\ ~ca[row].is_null
    /\ \E r \in closure_results(fn, ca[row].s) :
          /\ ~r.panic
          /\ out' = Append(out, Some(r.val))
    /\ row' = row + 1
    /\ UNCHANGED <<pc, ca, characters, all_results, fn, panicked, wordVars, scanVars>>

\* The closure panics: the expression unwinds and returns no column.
ApplyRowPanics ==
    /\ pc = "rows" /\ row <= Len(ca)
    /\ ~ca[row].is_null
    /\ \E r \in closure_results(fn, ca[row].s) : r.panic
    /\ panicked' = TRUE
    /\ out' = NoColumn
    /\ pc' = "panicked"
    /\ UNCHANGED <<ca, characters, row, all_results, fn, wordVars, scanVars>>

\* Ok(out.into_series())
ApplyReturn ==
    /\ pc = "rows" /\ row > Len(ca)
    /\ pc' = "done"
    /\ UNCHANGED <<colVars, wordVars, scanVars>>

NextColumn ==
    \/ ApplyNullRow
    \/ ApplyValueRow
    \/ ApplyRowPanics
    \/ ApplyReturn

SpecColumn == InitColumn /\ [][NextColumn]_vars

-----------------------------------------------------------------------------
(* Properties of pig_latin_word (SpecPig).                                 *)

Str(r) == r.val

\* The word content as the documentation describes it: the word less one
\* trailing ASCII punctuation char.
Content(w) ==
    IF w # <<>> /\ is_ascii_punctuation(w[Len(w)]) THEN SubSeq(w, 1, Len(w) - 1) ELSE w

Suffix(w) == SubSeq(w, Len(Content(w)) + 1, Len(w))

\* Number of chars before the first ASCII vowel; the whole length without one.
ClusterLen(c) ==
    IF \E i \in 1..Len(c) : is_vowel(c[i])
    THEN (CHOOSE i \in 1..Len(c) :
              is_vowel(c[i]) /\ \A j \in 1..(i - 1) : ~is_vowel(c[j])) - 1
    ELSE Len(c)

Moved(c) ==
    SubSeq(c, ClusterLen(c) + 1, Len(c)) \o SubSeq(c, 1, ClusterLen(c)) \o <<"a", "y">>

LeadingUppercased(c, t) ==
    IF is_ascii_uppercase(c[1]) THEN <<to_ascii_uppercase(t[1])>> \o Tail(t) ELSE t

\* C1: a word that is pure punctuation (its content is empty once the
\* trailing ASCII punctuation char is detached, e.g. "!") does not make
\* pig_latin_word panic, and is returned unchanged.
C1_PurePunctuationUnchanged ==
    (pc = "done" /\ word # <<>> /\ Content(word) = <<>>)
        => (~result.panic /\ Str(result) = word)

\* C2: capitalization of a consonant-initial word is preserved:
\* "pig" -> "igpay", "Pig" -> "Igpay", "latin!" -> "atinlay!".
C2_CapitalizationExamples ==
    pc = "done" =>
        /\ (word = Pig => result = Returned(<<"i", "g", "p", "a", "y">>))
        /\ (word = CapPig => result = Returned(<<"I", "g", "p", "a", "y">>))
        /\ (word = LatinBang
              => result = Returned(<<"a", "t", "i", "n", "l", "a", "y", "!">>))

\* C3: for every non-empty content the leading consonant cluster is all chars
\* before the first ASCII vowel (the whole content without one); a non-empty
\* cluster is moved behind the rest and "ay" appended (the first char
\* uppercased for an uppercase-initial word, the punctuation put back), and
\* the call does not panic, non-ASCII letters included.
C3_ConsonantClusterMoved ==
    (pc = "done" /\ Content(word) # <<>>)
        => /\ ~result.panic
           /\ ClusterLen(Content(word)) > 0
                => Str(result) =
                     LeadingUppercased(Content(word), Moved(Content(word)))
                         \o Suffix(word)

-----------------------------------------------------------------------------
(* Properties of to_sentence_case (SpecSentence).                          *)

EndsWith(s, t) ==
    Len(s) >= Len(t) /\ SubSeq(s, Len(s) - Len(t) + 1, Len(s)) = t

\* The char the last loop iteration handled, counted back by k.
Seen(k) == value[pos - 1 - k]

FirstPassDone == pc = "done" /\ pass = 1

HelloWorldTheLower ==
    <<"H","e","l","l","o"," ","w","o","r","l","d",".","t","h","e"," ","e","n","d">>
HelloWorldTheUpper ==
    <<"H","e","l","l","o"," ","w","o","r","l","d",".","T","h","e"," ","e","n","d">>

C5_CamelBoundarySpaceThenLowercase ==
    /\ (FirstPassDone /\ input = HelloCamel)
          => output = <<"H","e","l","l","o"," ","w","o","r","l","d">>
    /\ (pos >= 3 /\ is_uppercase(Seen(0)) /\ is_lowercase(Seen(1)))
          => /\ EndsWith(output, <<" ">> \o to_lowercase(Seen(0)))
             /\ Len(output) >= Len(to_lowercase(Seen(0))) + 2
             /\ is_alphabetic(output[Len(output) - Len(to_lowercase(Seen(0))) - 1])

C5_Witness ==
    /\ FirstPassDone /\ input = HelloCamel
    /\ output = <<"H","e","l","l","o"," ","w","o","r","l","d">>

\* C5 as stated: "helloWorld" becomes "Hello World"; the letter after the
\* inserted space is written uppercase.
C5_AsStated ==
    /\ (FirstPassDone /\ input = HelloCamel)
          => output = <<"H","e","l","l","o"," ","W","o","r","l","d">>
    /\ (pos >= 3 /\ is_uppercase(Seen(0)) /\ is_lowercase(Seen(1)))
          => EndsWith(output, <<" ">> \o to_uppercase(Seen(0)))

AsciiText(t) == \A i \in 1..Len(t) : len_utf8(t[i]) = 1

SecondPassDone == pc = "done" /\ pass = 2

\* C8 (as amended): for every input over ASCII letters, sentence enders,
\* other punctuation and whitespace, to_sentence_case applied to its own
\* output returns that output unchanged.
C8_IdempotentOnAscii ==
    (SecondPassDone /\ AsciiText(input)) => output = first_output

\* The second pass ran on an output that differs from the input by an
\* inserted space and by case.
C8_Witness ==
    /\ SecondPassDone /\ AsciiText(input)
    /\ Len(first_output) > Len(input)
    /\ \E i \in 1..Len(input) : is_uppercase(input[i]) /\ i > 1
    /\ output = first_output

\* C8 as stated: idempotent for every input over letters, sentence enders,
\* other punctuation and whitespace.
C8_AsStated == SecondPassDone => output = first_output

\* Seen(1) .. Seen(k) are whitespace and Seen(k + 1) is a sentence ender.
AfterEnderAndWhitespaceRun ==
    \E k \in 1..(pos - 3) :
        /\ \A j \in 1..k : is_whitespace(Seen(j))
        /\ is_sentence_ender(Seen(k + 1))

\* C10: Variant A.  After a sentence ender followed by a run of one or more
\* whitespace chars the next letter is uppercased ("hello world. the end"
\* -> "Hello world. The end", also with two or more whitespace chars), and a
\* letter that is not flagged is copied with its case untouched.
C10_VariantA ==
    /\ (FirstPassDone /\ input = HelloSpaced)
          => output = <<"H","e","l","l","o"," ","w","o","r","l","d","."," ",
                        "T","h","e"," ","e","n","d">>
    /\ (FirstPassDone /\ input = TwoSpaces) => output = <<"A", ".", " ", " ", "B">>
    /\ (pos >= 4 /\ is_alphabetic(Seen(0)) /\ AfterEnderAndWhitespaceRun)
          => EndsWith(output, to_uppercase(Seen(0)))
    /\ (pos >= 3 /\ is_alphabetic(Seen(0)) /\ is_alphabetic(Seen(1)))
          => EndsWith(output, <<Seen(0)>>)

-----------------------------------------------------------------------------
(* Properties of to_sponge_case (SpecSponge).                              *)

\* C9: two runs of to_sponge_case on the same input, the random source in
\* the same state at the start of each, give the same output.
C9_Reproducible ==
    (pc = "done" /\ pass = 2) => output = first_output

-----------------------------------------------------------------------------
(* Properties of split_by_chars (SpecSplit).                               *)

DelimiterPositions(s, chars) == {i \in 1..Len(s) : s[i] \in Range(chars)}

\* The j-th delimiter position of s, with 0 before the first and Len(s) + 1
\* after the last.
Cut(s, chars, j) ==
    LET P == DelimiterPositions(s, chars)
    IN  IF j = 0 THEN 0
        ELSE IF j > Cardinality(P) THEN Len(s) + 1
        ELSE CHOOSE p \in P : Cardinality({q \in P : q < p}) = j - 1

\* t without its leading and trailing whitespace, by positions.
Stripped(t) ==
    LET N == {i \in 1..Len(t) : ~is_whitespace(t[i])}
    IN  IF N = {} THEN <<>>
        ELSE SubSeq(t, CHOOSE i \in N : \A j \in N : i <= j,
                       CHOOSE i \in N : \A j \in N : i >= j)

Fragments(s, chars) ==
    [j \in 1..(Cardinality(DelimiterPositions(s, chars)) + 1) |->
        Some(Stripped(SubSeq(s, Cut(s, chars, j - 1) + 1, Cut(s, chars, j) - 1)))]

RECURSIVE FragmentsOfRows(_, _)
FragmentsOfRows(col, chars) ==
    IF col = <<>> THEN <<>>
    ELSE (IF Head(col).is_null THEN <<>> ELSE Fragments(Head(col).s, chars))
             \o FragmentsOfRows(Tail(col), chars)

\* C6: a non-null value with k delimiter occurrences gives exactly k + 1
\* fragments in left-to-right order, each the whitespace-trimmed text between
\* consecutive delimiters, empty fragments kept; a null value gives no row;
\* the fragments of earlier rows precede those of later rows.
C6_SplitFragments ==
    pc = "done" =>
        /\ out = FragmentsOfRows(ca, characters)
        /\ (ca = <<Some(ACommaBSemiC)>> /\ characters = <<",", ";">>)
              => out = <<Some(<<"a">>), Some(<<"b">>), Some(<<"c">>)>>
        /\ (ca = <<Some(ACommaCommaB)>> /\ characters = <<",">>)
              => out = <<Some(<<"a">>), Some(<<>>), Some(<<"b">>)>>

\* A null row, then a row with trimmed fragments and two delimiters.
C6_Witness ==
    /\ pc = "done"
    /\ ca = <<None, Some(ACommaBSemiC)>>
    /\ characters = <<",", ";">>
    /\ out = <<Some(<<"a">>), Some(<<"b">>), Some(<<"c">>)>>

-----------------------------------------------------------------------------
(* Properties of the column expressions (SpecColumn).                      *)

\* C7: for pig_latinnify, to_sentence_case and to_sponge_case the output
\* column has the length of the input column, row i is null exactly when
\* input row i is null, and a non-null row i is the closure's result on
\* input row i alone, for any column.
C7_RowWise ==
    pc \in {"done", "panicked"} =>
        /\ ~panicked
        /\ Len(out) = Len(ca)
        /\ \A i \in 1..Len(ca) :
              /\ out[i].is_null <=> ca[i].is_null
              /\ ~ca[i].is_null => Returned(out[i].s) \in closure_results(fn, ca[i].s)

====
